---- MODULE Spec2Model ----
(***************************************************************************)
(* Grade computation and promotion/retention rule engine of the            *)
(* SmartDepedForms portal (depedsfportal/models.py, views_forms.py).       *)
(*                                                                         *)
(* Decimal(5,2) values are represented by their number of hundredths       *)
(* (85.00 is 8500); a nullable field that is None is Null.                 *)
(***************************************************************************)
EXTENDS Integers, Sequences, FiniteSets, TLC

VARIABLES
    student_status,   \* Student.status of every student
    learning_areas,   \* the LearningArea table: code -> [applicable_grades, is_core]
    records,          \* the AcademicRecord table, a sequence indexed by primary key
    grades,           \* the SubjectGrade table: <<record pk, learning area>> -> row
    manual,           \* history: pks on which an explicit promote/retain action ran
    last,             \* history: the last request served and what it returned
    requests,         \* history: number of requests served so far
    academic_years,   \* the AcademicYear table, a sequence indexed by primary key
    promoting         \* promote requests in flight: each one's position and locals

vars == <<student_status, learning_areas, records, grades, manual, last, requests,
          academic_years, promoting>>

----------------------------------------------------------------------------
(* Values *)

Null == -1

MinScore == 0
MaxScore == 10000
PassingMark == 7500
CriticalMark == 6000
PrimaryMaxGrade == 3
LastGrade == 10

\* Python truthiness of an Optional[Decimal] / Optional[date]: None and 0 are falsy
Truthy(x) == x # Null /\ x # 0

RECURSIVE SumSeq(_)
SumSeq(s) == IF s = <<>> THEN 0 ELSE Head(s) + SumSeq(Tail(s))

\* round(Decimal(num)/Decimal(den), 2) on hundredths: Decimal.__round__ quantizes
\* with ROUND_HALF_EVEN
round2(num, den) ==
    LET q == num \div den
        r == num % den
    IN  IF 2 * r < den THEN q
        ELSE IF 2 * r > den THEN q + 1
        ELSE IF q % 2 = 0 THEN q ELSE q + 1

----------------------------------------------------------------------------
(* SubjectGrade *)

\* SubjectGrade(academic_record=..., learning_area=...): the field defaults
NewSubjectGrade ==
    [quarter_1 |-> Null, quarter_2 |-> Null, quarter_3 |-> Null, quarter_4 |-> Null,
     final_rating |-> Null,
     needs_remedial |-> FALSE,
     remedial_conducted_from |-> Null, remedial_conducted_to |-> Null,
     remedial_mark |-> Null,
     recomputed_final_grade |-> Null,
     remarks |-> ""]

\* faulty variant: divides by the four quarters instead of the quarters present
calculate_final_rating_all4(g) ==
    LET quarters == <<g.quarter_1, g.quarter_2, g.quarter_3, g.quarter_4>>
        valid_quarters == SelectSeq(quarters, LAMBDA q : q # Null)
    IN  IF valid_quarters = <<>> THEN Null
        ELSE round2(SumSeq(valid_quarters), 4)

calculate_final_rating(g) ==
    LET quarters == <<g.quarter_1, g.quarter_2, g.quarter_3, g.quarter_4>>
        valid_quarters == SelectSeq(quarters, LAMBDA q : q # Null)
    IN  IF valid_quarters = <<>> THEN Null
        ELSE round2(SumSeq(valid_quarters), Len(valid_quarters))

get_final_rating(g) ==
    IF Truthy(g.recomputed_final_grade) THEN g.recomputed_final_grade
    ELSE g.final_rating

\* SubjectGrade.clean: [ok |-> FALSE] is the ValidationError
clean(g) ==
    IF /\ g.needs_remedial
       /\ Truthy(g.remedial_mark)
       /\ ~(g.remedial_conducted_from # Null /\ g.remedial_conducted_to # Null)
    THEN [ok |-> FALSE, g |-> g]
    ELSE IF Truthy(g.remedial_mark) /\ Truthy(g.final_rating)
    THEN [ok |-> TRUE,
          g |-> [g EXCEPT !.recomputed_final_grade =
                              round2(g.final_rating + g.remedial_mark, 2)]]
    ELSE [ok |-> TRUE, g |-> g]

\* faulty variant: the flag is cleared at 75 whether or not a recomputed final
\* grade exists
derive_needs_remedial_clearing(g) ==
    IF Truthy(g.final_rating) /\ g.final_rating < PassingMark THEN TRUE
    ELSE IF Truthy(g.final_rating) /\ g.final_rating >= PassingMark THEN FALSE
    ELSE g.needs_remedial

\* SubjectGrade.save up to (not including) super().save(): the derived fields
\* of the in-memory instance
derive_needs_remedial(g) ==
    IF Truthy(g.final_rating) /\ g.final_rating < PassingMark THEN TRUE
    ELSE IF /\ Truthy(g.final_rating)
            /\ g.final_rating >= PassingMark
            /\ ~Truthy(g.recomputed_final_grade)
    THEN FALSE
    ELSE g.needs_remedial

derive_remarks(g) ==
    IF Truthy(g.final_rating)
    THEN IF get_final_rating(g) >= PassingMark THEN "Passed" ELSE "Failed"
    ELSE g.remarks

\* returns clean()'s outcome: the instance as super().save() writes it, or the
\* ValidationError
pre_save(g) ==
    LET g1 == [g EXCEPT !.final_rating = calculate_final_rating(g)]
        g2 == [g1 EXCEPT !.needs_remedial = derive_needs_remedial(g1)]
        g3 == [g2 EXCEPT !.remarks = derive_remarks(g2)]
    IN  clean(g3)

----------------------------------------------------------------------------
(* The database seen by one request: db = [records, grades, student_status] *)

\* SchoolYear labels are kept as their "-"-separated parts; a part is the
\* integer int() parses it to, or NaN when int() raises ValueError
NaN == -2

is_int(part) == part >= 0

\* str(grade_level), as compared with LearningArea.applicable_grades
str(n) ==
    CASE n = 1 -> "1" [] n = 2 -> "2" [] n = 3 -> "3" [] n = 4 -> "4"
      [] n = 5 -> "5" [] n = 6 -> "6" [] n = 7 -> "7" [] n = 8 -> "8"
      [] n = 9 -> "9" [] n = 10 -> "10" [] n = 11 -> "11"
      [] OTHER -> "?"

get_subjects_for_grade(las, grade_level) ==
    {c \in DOMAIN las :
        /\ las[c].applicable_grades = str(grade_level)
             \/ las[c].applicable_grades = "ALL"
        /\ las[c].is_core}

\* record.subject_grades: the keys of the SubjectGrade rows of record r
subject_grades(db, r) == {k \in DOMAIN db.grades : k[1] = r}

RECURSIVE SumFinal(_, _)
SumFinal(grds, K) ==
    IF K = {} THEN 0
    ELSE LET k == CHOOSE x \in K : TRUE
         IN  get_final_rating(grds[k]) + SumFinal(grds, K \ {k})

\* faulty variant: divides by all the subject grades of the record, rated or not
calculate_general_average_all(db, r) ==
    LET rated == {k \in subject_grades(db, r) : db.grades[k].final_rating # Null}
        total == SumFinal(db.grades, rated)
        count == Cardinality(subject_grades(db, r))
    IN  IF rated = {} THEN Null
        ELSE round2(total, count)

\* faulty variant: a record without a rated subject averages to zero
calculate_general_average_zero(db, r) ==
    LET rated == {k \in subject_grades(db, r) : db.grades[k].final_rating # Null}
        total == SumFinal(db.grades, rated)
        count == Cardinality(rated)
    IN  IF rated = {} THEN 0
        ELSE round2(total, count)

calculate_general_average(db, r) ==
    LET rated == {k \in subject_grades(db, r) : db.grades[k].final_rating # Null}
        total == SumFinal(db.grades, rated)
        count == Cardinality(rated)
    IN  IF rated = {} THEN Null
        ELSE IF count = 0 THEN Null
        ELSE round2(total, count)

\* faulty variant: a rating of exactly 60 counts as critical
determine_remarks_inclusive(db, r) ==
    LET rated == {k \in subject_grades(db, r) : db.grades[k].final_rating # Null}
        general_avg == calculate_general_average(db, r)
        failing_grades ==
            Cardinality({k \in rated : db.grades[k].final_rating < PassingMark})
        critical_failing ==
            \E k \in rated : db.grades[k].final_rating <= CriticalMark
    IN  IF rated = {} THEN ""
        ELSE IF db.records[r].grade_level <= PrimaryMaxGrade
        THEN IF failing_grades = 0 THEN "PROMOTED" ELSE "RETAINED"
        ELSE IF general_avg >= PassingMark /\ failing_grades = 0 THEN "PROMOTED"
        ELSE IF /\ general_avg >= PassingMark
                /\ failing_grades <= 2
                /\ ~critical_failing
        THEN "PASSED"
        ELSE "FAILED"

\* faulty variant: the primary grade levels are classified like the others
determine_remarks_no_primary(db, r) ==
    LET rated == {k \in subject_grades(db, r) : db.grades[k].final_rating # Null}
        general_avg == calculate_general_average(db, r)
        failing_grades ==
            Cardinality({k \in rated : db.grades[k].final_rating < PassingMark})
        critical_failing ==
            \E k \in rated : db.grades[k].final_rating < CriticalMark
    IN  IF rated = {} THEN ""
        ELSE IF general_avg >= PassingMark /\ failing_grades = 0 THEN "PROMOTED"
        ELSE IF /\ general_avg >= PassingMark
                /\ failing_grades <= 2
                /\ ~critical_failing
        THEN "PASSED"
        ELSE "FAILED"

\* faulty variant: a rating below 60 is no bar to PASSED
determine_remarks_no_critical(db, r) ==
    LET rated == {k \in subject_grades(db, r) : db.grades[k].final_rating # Null}
        general_avg == calculate_general_average(db, r)
        failing_grades ==
            Cardinality({k \in rated : db.grades[k].final_rating < PassingMark})
    IN  IF rated = {} THEN ""
        ELSE IF db.records[r].grade_level <= PrimaryMaxGrade
        THEN IF failing_grades = 0 THEN "PROMOTED" ELSE "RETAINED"
        ELSE IF general_avg >= PassingMark /\ failing_grades = 0 THEN "PROMOTED"
        ELSE IF general_avg >= PassingMark /\ failing_grades <= 2 THEN "PASSED"
        ELSE "FAILED"

determine_remarks(db, r) ==
    LET rated == {k \in subject_grades(db, r) : db.grades[k].final_rating # Null}
        general_avg == calculate_general_average(db, r)
        failing_grades ==
            Cardinality({k \in rated :
                \/ db.grades[k].final_rating < PassingMark
                \/ db.grades[k].final_rating = Null})
        critical_failing ==
            \E k \in rated : db.grades[k].final_rating < CriticalMark
    IN  IF rated = {} THEN ""
        ELSE IF general_avg = Null THEN ""
        ELSE IF db.records[r].grade_level <= PrimaryMaxGrade
        THEN IF failing_grades = 0 THEN "PROMOTED" ELSE "RETAINED"
        ELSE IF general_avg >= PassingMark /\ failing_grades = 0 THEN "PROMOTED"
        ELSE IF /\ general_avg >= PassingMark
                /\ failing_grades <= 2
                /\ ~critical_failing
        THEN "PASSED"
        ELSE "FAILED"

\* faulty variant: graduation is looked at only when the record is created
update_student_status_created_only(db, las, r, created) ==
    LET instance == db.records[r]
        subjects == get_subjects_for_grade(las, instance.grade_level)
        seeded ==
            IF created
            THEN [k \in DOMAIN db.grades \cup {<<r, c>> : c \in subjects} |->
                    IF k \in DOMAIN db.grades THEN db.grades[k]
                    ELSE NewSubjectGrade]
            ELSE db.grades
        s == instance.student
        enrolled ==
            IF created /\ db.student_status[s] = "PENDING" THEN "ENROLLED"
            ELSE db.student_status[s]
        graduated ==
            IF created /\ instance.grade_level = LastGrade
                       /\ instance.remarks = "PROMOTED"
            THEN "GRADUATED"
            ELSE enrolled
    IN  [db EXCEPT !.grades = seeded, !.student_status[s] = graduated]

\* faulty variant: a PENDING student is enrolled by every save of a record
update_student_status_every_save(db, las, r, created) ==
    LET instance == db.records[r]
        subjects == get_subjects_for_grade(las, instance.grade_level)
        seeded ==
            IF created
            THEN [k \in DOMAIN db.grades \cup {<<r, c>> : c \in subjects} |->
                    IF k \in DOMAIN db.grades THEN db.grades[k]
                    ELSE NewSubjectGrade]
            ELSE db.grades
        s == instance.student
        enrolled ==
            IF db.student_status[s] = "PENDING" THEN "ENROLLED"
            ELSE db.student_status[s]
        graduated ==
            IF instance.grade_level = LastGrade /\ instance.remarks = "PROMOTED"
            THEN "GRADUATED"
            ELSE enrolled
    IN  [db EXCEPT !.grades = seeded, !.student_status[s] = graduated]

\* faulty variant: creating a record enrolls the student whatever the status
update_student_status_enroll_any(db, las, r, created) ==
    LET instance == db.records[r]
        subjects == get_subjects_for_grade(las, instance.grade_level)
        seeded ==
            IF created
            THEN [k \in DOMAIN db.grades \cup {<<r, c>> : c \in subjects} |->
                    IF k \in DOMAIN db.grades THEN db.grades[k]
                    ELSE NewSubjectGrade]
            ELSE db.grades
        s == instance.student
        enrolled ==
            IF created THEN "ENROLLED" ELSE db.student_status[s]
        graduated ==
            IF instance.grade_level = LastGrade /\ instance.remarks = "PROMOTED"
            THEN "GRADUATED"
            ELSE enrolled
    IN  [db EXCEPT !.grades = seeded, !.student_status[s] = graduated]

\* post_save receiver of AcademicRecord
update_student_status_on_academic_change(db, las, r, created) ==
    LET instance == db.records[r]
        subjects == get_subjects_for_grade(las, instance.grade_level)
        seeded ==
            IF created
            THEN [k \in DOMAIN db.grades \cup {<<r, c>> : c \in subjects} |->
                    IF k \in DOMAIN db.grades THEN db.grades[k]
                    ELSE NewSubjectGrade]
            ELSE db.grades
        s == instance.student
        enrolled ==
            IF created /\ db.student_status[s] = "PENDING" THEN "ENROLLED"
            ELSE db.student_status[s]
        graduated ==
            IF instance.grade_level = LastGrade /\ instance.remarks = "PROMOTED"
            THEN "GRADUATED"
            ELSE enrolled
    IN  [db EXCEPT !.grades = seeded, !.student_status[s] = graduated]

\* faulty variant: the remarks are re-derived whatever they were
update_computed_fields_always(db, las, r) ==
    LET ga == calculate_general_average(db, r)
        db1 == [db EXCEPT !.records[r].general_average = ga,
                          !.records[r].remarks = determine_remarks(db, r)]
    IN  update_student_status_on_academic_change(db1, las, r, FALSE)

update_computed_fields(db, las, r) ==
    LET ga == calculate_general_average(db, r)
        rem == IF db.records[r].remarks \notin {"PROMOTED", "RETAINED"}
               THEN determine_remarks(db, r)
               ELSE db.records[r].remarks
        db1 == [db EXCEPT !.records[r].general_average = ga,
                          !.records[r].remarks = rem]
    IN  update_student_status_on_academic_change(db1, las, r, FALSE)

\* faulty variant: the receiver does nothing
update_academic_record_on_grade_change_off(db, las, r) == db

\* post_save / post_delete receiver of SubjectGrade
update_academic_record_on_grade_change(db, las, r) ==
    update_computed_fields(db, las, r)

\* SubjectGrade.save of the in-memory instance g stored under key k
SubjectGrade_save(db, las, k, g) ==
    LET c == pre_save(g)
    IN  IF ~c.ok THEN [ok |-> FALSE, db |-> db]
        ELSE LET db1 == [db EXCEPT !.grades = (k :> c.g) @@ db.grades]
                 db2 == update_academic_record_on_grade_change(db1, las, k[1])
                 db3 == update_computed_fields(db2, las, k[1])
             IN  [ok |-> TRUE, db |-> db3]

\* grade.delete()
SubjectGrade_delete(db, las, k) ==
    LET db1 == [db EXCEPT !.grades =
                    [j \in DOMAIN db.grades \ {k} |-> db.grades[j]]]
    IN  update_academic_record_on_grade_change(db1, las, k[1])

\* AcademicRecord.retain
retain(db, las, r) ==
    update_student_status_on_academic_change(
        [db EXCEPT !.records[r].remarks = "RETAINED"], las, r, FALSE)

next_school_year(school_year) ==
    IF Len(school_year) = 2 /\ is_int(school_year[1]) /\ is_int(school_year[2])
    THEN <<school_year[1] + 1, school_year[2] + 1>>
    ELSE school_year

\* AcademicRecord.objects.create(...): INSERT, then the post_save receiver
AcademicRecord_create(db, las, fields) ==
    LET pk == Len(db.records) + 1
        row == [student |-> fields.student, school |-> fields.school,
                grade_level |-> fields.grade_level, section |-> fields.section,
                school_year |-> fields.school_year,
                adviser_teacher |-> fields.adviser_teacher,
                general_average |-> Null, remarks |-> ""]
        db1 == [db EXCEPT !.records = Append(db.records, row)]
    IN  [ret |-> pk,
         db |-> update_student_status_on_academic_change(db1, las, pk, TRUE)]

\* faulty variant: the next record inherits the section and the adviser
promote_keep_placement(db, las, r) ==
    LET self == db.records[r]
        next_grade == self.grade_level + 1
        nsy == next_school_year(self.school_year)
        existing == {i \in DOMAIN db.records :
                        /\ db.records[i].student = self.student
                        /\ db.records[i].grade_level = next_grade
                        /\ db.records[i].school_year = nsy}
    IN  IF self.grade_level >= LastGrade
        THEN [ret |-> Null, created |-> FALSE, db |-> db]
        ELSE IF existing # {}
        THEN [ret |-> CHOOSE i \in existing : \A j \in existing : i <= j,
              created |-> FALSE, db |-> db]
        ELSE LET c == AcademicRecord_create(db, las,
                        [student |-> self.student, school |-> self.school,
                         grade_level |-> next_grade, section |-> self.section,
                         school_year |-> nsy,
                         adviser_teacher |-> self.adviser_teacher])
             IN  [ret |-> c.ret, created |-> TRUE, db |-> c.db]

\* faulty variant: no lookup of an existing next record
promote_always_create(db, las, r) ==
    LET self == db.records[r]
        next_grade == self.grade_level + 1
        nsy == next_school_year(self.school_year)
    IN  IF self.grade_level >= LastGrade
        THEN [ret |-> Null, created |-> FALSE, db |-> db]
        ELSE LET c == AcademicRecord_create(db, las,
                        [student |-> self.student, school |-> self.school,
                         grade_level |-> next_grade, section |-> Null,
                         school_year |-> nsy, adviser_teacher |-> Null])
             IN  [ret |-> c.ret, created |-> TRUE, db |-> c.db]

\* AcademicRecord.promote: [ret |-> pk or Null, created, db]
promote(db, las, r) ==
    LET self == db.records[r]
        next_grade == self.grade_level + 1
        nsy == next_school_year(self.school_year)
        existing == {i \in DOMAIN db.records :
                        /\ db.records[i].student = self.student
                        /\ db.records[i].grade_level = next_grade
                        /\ db.records[i].school_year = nsy}
    IN  IF self.grade_level >= LastGrade
        THEN [ret |-> Null, created |-> FALSE, db |-> db]
        ELSE IF existing # {}
        THEN [ret |-> CHOOSE i \in existing : \A j \in existing : i <= j,
              created |-> FALSE, db |-> db]
        ELSE LET c == AcademicRecord_create(db, las,
                        [student |-> self.student, school |-> self.school,
                         grade_level |-> next_grade, section |-> Null,
                         school_year |-> nsy, adviser_teacher |-> Null])
             IN  [ret |-> c.ret, created |-> TRUE, db |-> c.db]

----------------------------------------------------------------------------
(* Requests.  Every request reads the tables, runs to completion and writes
   them back (section 5 of the design: single-threaded, request-per-invocation). *)

MaxRecords == 3

Students == {"s1"}

DB == [records |-> records, grades |-> grades, student_status |-> student_status]

Store(db) ==
    /\ records' = db.records
    /\ grades' = db.grades
    /\ student_status' = db.student_status

NoRecord == [student |-> "", school |-> "", grade_level |-> 0, section |-> Null,
             school_year |-> <<>>, adviser_teacher |-> Null,
             general_average |-> Null, remarks |-> ""]

\* what the history keeps of a request: the view, the record and row it
\* addressed, its input, whether it was accepted, the record returned (create,
\* promote), whether it was created, and the addressed record as the request
\* found it (for promote: as promote() found it, after the view set remarks;
\* a save made outside the views keeps no record)
Served(op, rec, key, arg, ok, ret, created, before) ==
    last' = [op |-> op, rec |-> rec, key |-> key, arg |-> arg, ok |-> ok,
             ret |-> ret, created |-> created, before |-> before]

\* MinValueValidator(0), MaxValueValidator(100) of a form field
in_range(v) == v = Null \/ (MinScore <= v /\ v <= MaxScore)

\* ModelForm.is_valid for a SubjectGrade form: the field validators, then
\* instance.full_clean() -> SubjectGrade.clean on the constructed instance
form_clean(instance, form_values) ==
    IF \A i \in DOMAIN form_values : in_range(form_values[i])
    THEN clean(instance)
    ELSE [ok |-> FALSE, g |-> instance]

\* AcademicRecordCreateView.form_valid; the form's unique check on
\* (student, grade_level, school_year) rejects a duplicate
AcademicRecordCreateView(s, gl, sy, place) ==
    /\ Len(records) < MaxRecords
    /\ ~\E i \in DOMAIN records :
            /\ records[i].student = s
            /\ records[i].grade_level = gl
            /\ records[i].school_year = sy
    /\ LET c == AcademicRecord_create(DB, learning_areas,
                    [student |-> s, school |-> place[1], grade_level |-> gl,
                     section |-> place[2], school_year |-> sy,
                     adviser_teacher |-> place[3]])
       IN  /\ Store(c.db)
           /\ Served("create_record", c.ret, Null, <<>>, TRUE, c.ret, TRUE, NoRecord)
    /\ UNCHANGED <<learning_areas, manual>>

\* A direct caller of the ORM (reproduce_issue.py): AcademicRecord.objects.create
\* with no form in front of it, so no check of grade_level against
\* GRADE_CHOICES; a duplicate (student, grade_level, school_year) is an
\* IntegrityError and stores nothing
AcademicRecordObjectsCreate(s, gl, sy, place) ==
    /\ Len(records) < MaxRecords
    /\ ~\E i \in DOMAIN records :
            /\ records[i].student = s
            /\ records[i].grade_level = gl
            /\ records[i].school_year = sy
    /\ LET c == AcademicRecord_create(DB, learning_areas,
                    [student |-> s, school |-> place[1], grade_level |-> gl,
                     section |-> place[2], school_year |-> sy,
                     adviser_teacher |-> place[3]])
       IN  /\ Store(c.db)
           /\ Served("create_record", c.ret, Null, <<>>, TRUE, c.ret, TRUE, NoRecord)
    /\ UNCHANGED <<learning_areas, manual>>

\* SubjectGradeUpdateView with SubjectGradeForm (quarter_1..quarter_4)
SubjectGradeUpdateView(k, qs) ==
    /\ k \in DOMAIN grades
    /\ LET instance == [grades[k] EXCEPT !.quarter_1 = qs[1], !.quarter_2 = qs[2],
                                         !.quarter_3 = qs[3], !.quarter_4 = qs[4]]
           f == form_clean(instance, qs)
           out == IF f.ok THEN SubjectGrade_save(DB, learning_areas, k, f.g)
                  ELSE [ok |-> FALSE, db |-> DB]
       IN  /\ Store(out.db)
           /\ Served("grade_update", k[1], k, qs, out.ok, Null, FALSE, records[k[1]])
    /\ UNCHANGED <<learning_areas, manual>>

\* SubjectGradeCreateView: the subject is chosen among get_subjects_for_grade;
\* a second row for the same (record, learning area) is an IntegrityError,
\* reported as a form error
SubjectGradeCreateView(r, la, qs) ==
    /\ r \in DOMAIN records
    /\ la \in get_subjects_for_grade(learning_areas, records[r].grade_level)
    /\ LET k == <<r, la>>
           instance == [NewSubjectGrade EXCEPT !.quarter_1 = qs[1], !.quarter_2 = qs[2],
                                               !.quarter_3 = qs[3], !.quarter_4 = qs[4]]
           f == form_clean(instance, qs)
           out == IF f.ok /\ k \notin DOMAIN grades
                  THEN SubjectGrade_save(DB, learning_areas, k, f.g)
                  ELSE [ok |-> FALSE, db |-> DB]
       IN  /\ Store(out.db)
           /\ Served("grade_create", r, k, qs, out.ok, Null, FALSE, records[r])
    /\ UNCHANGED <<learning_areas, manual>>

\* SubjectGradeDeleteView.post
SubjectGradeDeleteView(k) ==
    /\ k \in DOMAIN grades
    /\ Store(SubjectGrade_delete(DB, learning_areas, k))
    /\ Served("grade_delete", k[1], k, <<>>, TRUE, Null, FALSE, records[k[1]])
    /\ UNCHANGED <<learning_areas, manual>>

\* SubjectGradeRemedialUpdateView with SubjectGradeRemedialForm
\* rm = <<remedial_conducted_from, remedial_conducted_to, remedial_mark>>
SubjectGradeRemedialUpdateView(k, rm) ==
    /\ k \in DOMAIN grades
    /\ LET instance == [grades[k] EXCEPT !.remedial_conducted_from = rm[1],
                                         !.remedial_conducted_to = rm[2],
                                         !.remedial_mark = rm[3]]
           f == form_clean(instance, <<rm[3]>>)
           out == IF f.ok THEN SubjectGrade_save(DB, learning_areas, k, f.g)
                  ELSE [ok |-> FALSE, db |-> DB]
       IN  /\ Store(out.db)
           /\ Served("grade_remedial", k[1], k, rm, out.ok, Null, FALSE, records[k[1]])
    /\ UNCHANGED <<learning_areas, manual>>

\* A direct caller of the ORM: grade = SubjectGrade.objects.get(...), assign
\* the quarters and a final_rating of its own, grade.save()
SubjectGradeSave(k, qs, fr) ==
    /\ k \in DOMAIN grades
    /\ LET instance == [grades[k] EXCEPT !.quarter_1 = qs[1], !.quarter_2 = qs[2],
                                         !.quarter_3 = qs[3], !.quarter_4 = qs[4],
                                         !.final_rating = fr]
           out == SubjectGrade_save(DB, learning_areas, k, instance)
       IN  /\ Store(out.db)
           /\ Served("grade_save", k[1], k, <<qs, fr>>, out.ok, Null, FALSE, NoRecord)
    /\ UNCHANGED <<learning_areas, manual>>

\* AcademicRecordPromoteView.post
AcademicRecordPromoteView(r) ==
    /\ r \in DOMAIN records
    /\ LET db1 == update_student_status_on_academic_change(
                      [DB EXCEPT !.records[r].remarks = "PROMOTED"],
                      learning_areas, r, FALSE)
           p == promote(db1, learning_areas, r)
       IN  /\ Len(p.db.records) <= MaxRecords
           /\ Store(p.db)
           /\ Served("promote", r, Null, <<>>, TRUE, p.ret, p.created, db1.records[r])
    /\ manual' = manual \cup {r}
    /\ UNCHANGED learning_areas

\* AcademicRecordRetainView.post
AcademicRecordRetainView(r) ==
    /\ r \in DOMAIN records
    /\ Store(retain(DB, learning_areas, r))
    /\ Served("retain", r, Null, <<>>, TRUE, Null, FALSE, records[r])
    /\ manual' = manual \cup {r}
    /\ UNCHANGED learning_areas

NoGrades == [k \in {} |-> NewSubjectGrade]

\* no AcademicYear row; no promote request in flight
NoYears == <<>>
NoPromotions == <<>>

NoRequest == [op |-> "none", rec |-> Null, key |-> Null, arg |-> <<>>, ok |-> TRUE,
              ret |-> Null, created |-> FALSE, before |-> NoRecord]

EmptyDB(status) == [records |-> <<>>, grades |-> NoGrades, student_status |-> status]

----------------------------------------------------------------------------
(* Spec: the record life cycle of one student, a bounded number of requests *)

MaxRequests == 4

\* LearningArea rows: English for all grades, Science 9 and the optional
\* (non-core) Arabic Language
Areas == [ENG |-> [applicable_grades |-> "ALL", is_core |-> TRUE],
          SCI9 |-> [applicable_grades |-> "9", is_core |-> TRUE],
          ARAB |-> [applicable_grades |-> "ALL", is_core |-> FALSE]]

\* Student.STATUS_CHOICES
StudentStatuses == {"PENDING", "ENROLLED", "TRANSFERRED", "DROPPED", "GRADUATED"}

GradeLevels == {9, 10}
SchoolYears == {<<2024, 2025>>}
\* <<school, section pk, adviser pk>> as chosen on AcademicRecordForm
Placements == {<<"School1", Null, Null>>, <<"School2", 1, 1>>}
\* <<quarter_1, .., quarter_4>> as typed into SubjectGradeForm
QuarterInputs == {<<Null, Null, Null, Null>>,
                  <<9000, 9200, 8800, 9000>>,
                  <<5000, Null, Null, Null>>}
\* <<remedial_conducted_from, remedial_conducted_to, remedial_mark>> as typed
\* into SubjectGradeRemedialForm (dates as day numbers)
RemedialInputs == {<<Null, Null, Null>>, <<1, 30, 8000>>}

Keys == (1..MaxRecords) \X DOMAIN Areas

Init ==
    /\ academic_years = NoYears
    /\ promoting = NoPromotions
    /\ student_status \in [Students -> StudentStatuses]
    /\ learning_areas = Areas
    /\ records = <<>>
    /\ grades = NoGrades
    /\ manual = {}
    /\ last = NoRequest
    /\ requests = 0

Next ==
    /\ UNCHANGED <<academic_years, promoting>>
    /\ requests < MaxRequests
    /\ requests' = requests + 1
    /\ \/ \E s \in Students, gl \in GradeLevels, sy \in SchoolYears, pl \in Placements :
            AcademicRecordCreateView(s, gl, sy, pl)
       \/ \E k \in Keys, qs \in QuarterInputs : SubjectGradeUpdateView(k, qs)
       \/ \E k \in Keys, qs \in QuarterInputs : SubjectGradeCreateView(k[1], k[2], qs)
       \/ \E k \in Keys : SubjectGradeDeleteView(k)
       \/ \E k \in Keys, rm \in RemedialInputs : SubjectGradeRemedialUpdateView(k, rm)
       \/ \E r \in 1..MaxRecords : AcademicRecordPromoteView(r)
       \/ \E r \in 1..MaxRecords : AcademicRecordRetainView(r)

Spec == Init /\ [][Next]_vars

----------------------------------------------------------------------------
(* SpecSave: SubjectGrade.save on one subject of one enrolled grade-9 record,
   for every combination of quarter scores drawn from Scores *)

Scores == {Null, 0, 7001, 8002}
ScenarioA == <<8000, 7000, 9000, 10000>>
ScenarioB == <<6000, 5500, Null, Null>>
AllQuarters == (Scores \X Scores \X Scores \X Scores) \cup {ScenarioA, ScenarioB}
\* final_rating as a caller may have assigned it before save()
AssignedRatings == {Null, 9999}

OneArea == [ENG |-> [applicable_grades |-> "ALL", is_core |-> TRUE]]

\* the tables after AcademicRecord.objects.create for a PENDING student
Enrolled(las, gl) ==
    AcademicRecord_create(EmptyDB([s \in Students |-> "PENDING"]), las,
        [student |-> "s1", school |-> "School1", grade_level |-> gl,
         section |-> Null, school_year |-> <<2024, 2025>>,
         adviser_teacher |-> Null]).db

InitSave ==
    /\ academic_years = NoYears
    /\ promoting = NoPromotions
    /\ learning_areas = OneArea
    /\ LET db == Enrolled(OneArea, 9)
       IN  /\ records = db.records
           /\ grades = db.grades
           /\ student_status = db.student_status
    /\ manual = {}
    /\ last = NoRequest
    /\ requests = 0

NextSave ==
    /\ UNCHANGED <<academic_years, promoting>>
    /\ UNCHANGED requests
    /\ \/ \E qs \in AllQuarters, fr \in AssignedRatings :
            SubjectGradeSave(<<1, "ENG">>, qs, fr)
       \/ \E qs \in QuarterInputs \cup {ScenarioA, ScenarioB} :
            SubjectGradeUpdateView(<<1, "ENG">>, qs)

SpecSave == InitSave /\ [][NextSave]_vars

----------------------------------------------------------------------------
(* SpecGrade: quarter, remedial, create and delete requests on the two
   subjects of one enrolled grade-9 record *)

MaxGradeRequests == 4

TwoAreas == [ENG |-> [applicable_grades |-> "ALL", is_core |-> TRUE],
             SCI9 |-> [applicable_grades |-> "9", is_core |-> TRUE]]

GradeQuarterInputs == {<<Null, Null, Null, Null>>, ScenarioA, ScenarioB,
                       <<0, 0, Null, Null>>, <<7500, Null, 7501, Null>>}
GradeRemedialInputs == {<<Null, Null, Null>>, <<1, 30, 8000>>, <<1, 30, 0>>,
                        <<1, Null, 8000>>, <<Null, Null, 7001>>}
GradeKeys == {1} \X DOMAIN TwoAreas

InitGrade ==
    /\ academic_years = NoYears
    /\ promoting = NoPromotions
    /\ learning_areas = TwoAreas
    /\ LET db == Enrolled(TwoAreas, 9)
       IN  /\ records = db.records
           /\ grades = db.grades
           /\ student_status = db.student_status
    /\ manual = {}
    /\ last = NoRequest
    /\ requests = 0

NextGrade ==
    /\ UNCHANGED <<academic_years, promoting>>
    /\ requests < MaxGradeRequests
    /\ requests' = requests + 1
    /\ \/ \E k \in GradeKeys, qs \in GradeQuarterInputs : SubjectGradeUpdateView(k, qs)
       \/ \E k \in GradeKeys, rm \in GradeRemedialInputs :
            SubjectGradeRemedialUpdateView(k, rm)
       \/ \E k \in GradeKeys : SubjectGradeDeleteView(k)
       \/ \E k \in GradeKeys, qs \in GradeQuarterInputs :
            SubjectGradeCreateView(k[1], k[2], qs)

SpecGrade == InitGrade /\ [][NextGrade]_vars

----------------------------------------------------------------------------
(* SpecClassify: the aggregator and the classifier on one record of four
   subjects.  The initial states are the tables after the record was created
   at grade level gl and each subject was saved with one quarter score drawn
   from Ratings, the first subject then given a remedial mark or none; the
   requests remove subject grades. *)

FourAreas == [ENG |-> [applicable_grades |-> "ALL", is_core |-> TRUE],
              MATH |-> [applicable_grades |-> "ALL", is_core |-> TRUE],
              SCI |-> [applicable_grades |-> "ALL", is_core |-> TRUE],
              FIL |-> [applicable_grades |-> "ALL", is_core |-> TRUE]]

Ratings == {Null, 5999, 6000, 7499, 7500, 10000}
ClassifyGradeLevels == {1, 3, 4, 9}
ClassifyRemedialInputs == {<<Null, Null, Null>>, <<1, 30, 10000>>}

\* the tables after saving row k with quarter_1 = v
Rated(db, las, k, v) ==
    SubjectGrade_save(db, las, k, [db.grades[k] EXCEPT !.quarter_1 = v]).db

\* the tables after saving row k with the remedial fields rm
Remediated(db, las, k, rm) ==
    LET out == SubjectGrade_save(db, las, k,
                   [db.grades[k] EXCEPT !.remedial_conducted_from = rm[1],
                                        !.remedial_conducted_to = rm[2],
                                        !.remedial_mark = rm[3]])
    IN  out.db

InitClassify ==
    /\ academic_years = NoYears
    /\ promoting = NoPromotions
    /\ learning_areas = FourAreas
    /\ \E gl \in ClassifyGradeLevels, v1 \in Ratings, v2 \in Ratings,
          v3 \in Ratings, v4 \in Ratings, rm \in ClassifyRemedialInputs :
         LET db0 == Enrolled(FourAreas, gl)
             db1 == Rated(db0, FourAreas, <<1, "ENG">>, v1)
             db2 == Rated(db1, FourAreas, <<1, "MATH">>, v2)
             db3 == Rated(db2, FourAreas, <<1, "SCI">>, v3)
             db4 == Rated(db3, FourAreas, <<1, "FIL">>, v4)
             db == Remediated(db4, FourAreas, <<1, "ENG">>, rm)
         IN  /\ records = db.records
             /\ grades = db.grades
             /\ student_status = db.student_status
    /\ manual = {}
    /\ last = NoRequest
    /\ requests = 0

NextClassify ==
    /\ UNCHANGED <<academic_years, promoting>>
    /\ UNCHANGED requests
    /\ \E k \in {1} \X DOMAIN FourAreas : SubjectGradeDeleteView(k)

SpecClassify == InitClassify /\ [][NextClassify]_vars

----------------------------------------------------------------------------
(* Claims *)

Abs(x) == IF x < 0 THEN -x ELSE x

\* v is num/den rounded to the nearest hundredth (either way on a tie)
IsRounded(v, num, den) == 2 * Abs(den * v - num) <= den

Quarters(g) == <<g.quarter_1, g.quarter_2, g.quarter_3, g.quarter_4>>

Present(qs) == {i \in 1..4 : qs[i] # Null}

RECURSIVE SumAt(_, _)
SumAt(qs, I) ==
    IF I = {} THEN 0
    ELSE LET i == CHOOSE x \in I : TRUE IN qs[i] + SumAt(qs, I \ {i})

\* C1: after SubjectGrade.save() returns, the stored quarters are the ones the
\* caller gave, final_rating is the mean of the non-null quarters rounded to 2
\* decimal places, it is null iff all four quarters are null, and whatever
\* final_rating the caller had assigned is overwritten.
C1_FinalRatingIsMeanOfQuarters ==
    (last.op \in {"grade_save", "grade_update"} /\ last.ok) =>
        LET g == grades[last.key]
            qs == IF last.op = "grade_save" THEN last.arg[1] ELSE last.arg
        IN  /\ Quarters(g) = qs
            /\ (g.final_rating = Null) <=> (Present(qs) = {})
            /\ Present(qs) # {} =>
                 IsRounded(g.final_rating, SumAt(qs, Present(qs)),
                           Cardinality(Present(qs)))

\* C1 witness: a save with three quarters present and a caller-assigned
\* final_rating of 99.99 has stored another, non-null final rating
C1_Witness ==
    /\ last.op = "grade_save"
    /\ last.ok
    /\ last.arg[2] = 9999
    /\ Cardinality(Present(last.arg[1])) = 3
    /\ grades[last.key].final_rating \notin {Null, 9999}

RatedKeys(r) == {k \in DOMAIN grades : k[1] = r /\ grades[k].final_rating # Null}

\* the effective final rating as the claims define it: the recomputed final
\* grade when one exists, otherwise the final rating
Effective(g) ==
    IF g.recomputed_final_grade # Null THEN g.recomputed_final_grade
    ELSE g.final_rating

RECURSIVE SumEffective(_)
SumEffective(K) ==
    IF K = {} THEN 0
    ELSE LET k == CHOOSE x \in K : TRUE
         IN  Effective(grades[k]) + SumEffective(K \ {k})

\* C2: calculate_general_average is the mean, rounded to 2 decimal places, of
\* the effective final ratings of exactly the subject grades whose final_rating
\* is non-null, and is null iff the record has no such subject grade.
C2_GeneralAverageIsMeanOfRated ==
    \A r \in DOMAIN records :
        LET ga == calculate_general_average(DB, r)
        IN  /\ (ga = Null) <=> (RatedKeys(r) = {})
            /\ RatedKeys(r) # {} =>
                 IsRounded(ga, SumEffective(RatedKeys(r)), Cardinality(RatedKeys(r)))

\* C2 witness: a record with an unrated subject, a subject whose recomputed
\* grade differs from its final rating and a stored general average
C2_Witness ==
    \E r \in DOMAIN records :
        /\ \E k \in DOMAIN grades : k[1] = r /\ grades[k].final_rating = Null
        /\ \E k \in RatedKeys(r) :
              grades[k].recomputed_final_grade \notin {Null, grades[k].final_rating}
        /\ Cardinality(RatedKeys(r)) >= 2
        /\ records[r].general_average # Null
        /\ records[r].general_average = calculate_general_average(DB, r)

\* the failing count and the critical flag over the rated subjects of r
FailingCount(r) ==
    Cardinality({k \in RatedKeys(r) : grades[k].final_rating < 7500})

Critical(r) == \E k \in RatedKeys(r) : grades[k].final_rating < 6000

\* C3: at grade level 4 or above with at least one rated subject,
\* determine_remarks is PROMOTED when the general average is >= 75 and nothing
\* fails; otherwise PASSED when the average is >= 75, one or two subjects fail
\* and none is below 60; otherwise FAILED.  A rating below 60 always gives
\* FAILED; exactly 75 is not failing and exactly 60 is not critical.
C3_ClassifierGrade4Up ==
    \A r \in DOMAIN records :
        (records[r].grade_level >= 4 /\ RatedKeys(r) # {}) =>
            LET avg == calculate_general_average(DB, r)
                F == FailingCount(r)
                res == determine_remarks(DB, r)
                promoted == avg >= 7500 /\ F = 0
                passed == ~promoted /\ avg >= 7500 /\ F \in {1, 2} /\ ~Critical(r)
            IN  /\ promoted => res = "PROMOTED"
                /\ passed => res = "PASSED"
                /\ (~promoted /\ ~passed) => res = "FAILED"
                /\ Critical(r) => res = "FAILED"
                /\ (\A k \in RatedKeys(r) : grades[k].final_rating = 7500)
                      => res = "PROMOTED"

\* C3 witness: a grade-4-or-above record stored as PASSED by the classifier
\* with a subject rated exactly 60 and another exactly 75
C3_Witness ==
    \E r \in DOMAIN records :
        /\ records[r].grade_level >= 4
        /\ records[r].remarks = "PASSED"
        /\ determine_remarks(DB, r) = "PASSED"
        /\ \E k \in RatedKeys(r) : grades[k].final_rating = 6000
        /\ \E k \in RatedKeys(r) : grades[k].final_rating = 7500

\* C4: once a remedial mark m is saved on a subject grade whose final rating
\* is f, get_final_rating is round((f + m) / 2, 2) and final_rating is still f,
\* for every f and m in [0,100], 0 included.
C4_EffectiveRatingIsMeanWithRemedial ==
    [][(/\ last'.op = "grade_remedial"
        /\ last'.ok
        /\ last'.arg[3] # Null
        /\ grades[last'.key].final_rating # Null) =>
            LET f == grades[last'.key].final_rating
                m == last'.arg[3]
                g == grades'[last'.key]
            IN  /\ g.final_rating = f
                /\ g.remedial_mark = m
                /\ IsRounded(get_final_rating(g), f + m, 2)]_vars

GradeOps == {"grade_update", "grade_create", "grade_delete", "grade_remedial",
             "grade_save"}

\* C5: once the promote or the retain action has set a record's remarks,
\* subject-grade saves and deletions never change them; only another promote
\* or retain action on that record does.
C5_ManualRemarksKept ==
    [][\A r \in manual :
          records'[r].remarks # records[r].remarks =>
              (last'.op \in {"promote", "retain"} /\ last'.rec = r)]_vars

\* C5 witness: a subject-grade request on a manually decided record changed
\* its general average, the classifier now says otherwise, the remarks stand
C5_Witness ==
    /\ last.op \in GradeOps
    /\ last.ok
    /\ last.rec \in manual
    /\ last.before.remarks \in {"PROMOTED", "RETAINED"}
    /\ records[last.rec].remarks = last.before.remarks
    /\ records[last.rec].general_average # last.before.general_average
    /\ determine_remarks(DB, last.rec) \notin {"", records[last.rec].remarks}

\* C6: a record never explicitly promoted or retained carries, after every
\* subject-grade save or deletion, the remarks the classifier gives for its
\* current subject grades.
C6_RemarksFollowClassifier ==
    (last.op \in GradeOps /\ last.ok /\ last.rec \notin manual) =>
        records[last.rec].remarks = determine_remarks(DB, last.rec)

\* C7: after every subject-grade save or delete the stored general_average is
\* calculate_general_average over the subject grades now stored.
C7_GeneralAverageNeverStale ==
    \A r \in DOMAIN records :
        records[r].general_average = calculate_general_average(DB, r)

\* C7 witness: the removal of a rated subject grade changed the general
\* average of a record that still has a rated subject
C7_Witness ==
    /\ last.op = "grade_delete"
    /\ last.before.general_average # Null
    /\ records[last.rec].general_average \notin {Null, last.before.general_average}

\* the record promote() returned is a fresh next-grade record of the source
FreshNext(n, source) ==
    /\ n.school = source.school
    /\ n.section = Null
    /\ n.adviser_teacher = Null
    /\ n.general_average = Null
    /\ n.remarks = ""

\* C8 as claimed: promote on a record below grade 10 returns a record of the
\* same student and school one grade level up with no section, no adviser, no
\* general average and empty remarks; no record above grade 10 is created and
\* the source record is left as it was.
C8_PromoteReturnsFreshRecord ==
    (last.op = "promote" /\ last.before.grade_level < 10) =>
        /\ last.ret \in DOMAIN records
        /\ records[last.ret].student = last.before.student
        /\ records[last.ret].grade_level = last.before.grade_level + 1
        /\ FreshNext(records[last.ret], last.before)
        /\ records[last.rec] = last.before
        /\ \A i \in DOMAIN records : records[i].grade_level <= 10

\* C8 amended: the record returned is of the same student one grade level up;
\* when promote created it, it has the source's school, no section, no adviser,
\* no general average and empty remarks; when it already existed it is returned
\* as stored; no record above grade 10 is created and the source is unchanged.
C8_PromoteCreatesFreshOrReturnsStored ==
    [][(last'.op = "promote" /\ last'.before.grade_level < 10) =>
          /\ last'.ret \in DOMAIN records'
          /\ records'[last'.ret].student = last'.before.student
          /\ records'[last'.ret].grade_level = last'.before.grade_level + 1
          /\ (last'.created =>
                /\ last'.ret \notin DOMAIN records
                /\ FreshNext(records'[last'.ret], last'.before))
          /\ (~last'.created =>
                /\ last'.ret \in DOMAIN records
                /\ records'[last'.ret] = records[last'.ret])
          /\ records'[last'.rec] = last'.before
          /\ \A i \in DOMAIN records' : records'[i].grade_level <= 10]_vars

\* C8 witness: promote created the next record of a source record that has a
\* section and an adviser
C8_Witness ==
    /\ last.op = "promote"
    /\ last.created
    /\ last.before.section # Null
    /\ last.before.adviser_teacher # Null
    /\ records[last.ret].section = Null
    /\ records[last.ret].grade_level = 10

UniqueTriples(recs) ==
    \A i, j \in DOMAIN recs :
        (/\ recs[i].student = recs[j].student
         /\ recs[i].grade_level = recs[j].grade_level
         /\ recs[i].school_year = recs[j].school_year) => i = j

\* C9: promote returns the stored (student, G+1, next school year) record when
\* there is one, creating nothing; promoting the same record again returns the
\* same record; no two records ever share (student, grade level, school year).
C9_PromoteIdempotent ==
    [][/\ UniqueTriples(records')
       /\ (last'.op = "promote" =>
            LET r == last'.rec
                stored == {i \in DOMAIN records :
                             /\ records[i].student = records[r].student
                             /\ records[i].grade_level = records[r].grade_level + 1
                             /\ records[i].school_year =
                                    next_school_year(records[r].school_year)}
            IN  /\ stored # {} =>
                     (last'.ret \in stored /\ Len(records') = Len(records))
                /\ (last.op = "promote" /\ last.rec = r) =>
                     (last'.ret = last.ret /\ Len(records') = Len(records))
                /\ Len(records') <= Len(records) + 1)]_vars

\* C9 witness: a second promote in a row of a record below grade 10 returned
\* the record the first one created
C9_Witness ==
    /\ last.op = "promote"
    /\ ~last.created
    /\ last.ret \in DOMAIN records
    /\ last.ret > last.rec
    /\ records[last.ret].grade_level = last.before.grade_level + 1
    /\ last.rec \in manual

\* C10: promoting a grade-10 record returns no record and creates none; and
\* whenever a request has saved a grade-10 record whose remarks are PROMOTED,
\* by the promote action or by automatic classification, the student's status
\* is GRADUATED.
C10_Grade10PromotedGraduates ==
    /\ (last.op = "promote" /\ last.before.grade_level = 10) =>
          /\ last.ret = Null
          /\ ~last.created
          /\ student_status[last.before.student] = "GRADUATED"
    /\ (last.op # "none" /\ last.ok /\ last.rec \in DOMAIN records) =>
          ((records[last.rec].grade_level = 10
            /\ records[last.rec].remarks = "PROMOTED") =>
                student_status[records[last.rec].student] = "GRADUATED")

\* C10 witness: a quarter update on a grade-10 record nobody promoted by hand
\* made the classifier assign PROMOTED, and the student is GRADUATED
C10_Witness ==
    /\ last.op = "grade_update"
    /\ last.ok
    /\ last.rec \notin manual
    /\ last.before.remarks # "PROMOTED"
    /\ records[last.rec].grade_level = 10
    /\ records[last.rec].remarks = "PROMOTED"
    /\ student_status[records[last.rec].student] = "GRADUATED"

----------------------------------------------------------------------------
(* Claims on the remedial flag and the remedial fields *)

SaveOps == {"grade_update", "grade_create", "grade_remedial"}

\* the row a request addressed as it was stored before the request; the field
\* defaults when the request creates it
StoredBefore(k) == IF k \in DOMAIN grades THEN grades[k] ELSE NewSubjectGrade

\* C11: after any accepted SubjectGrade save, a row whose final rating is
\* below 75 (0 included) has needs_remedial set.
C11_BelowPassingNeedsRemedial ==
    (last.op \in SaveOps /\ last.ok) =>
        LET g == grades[last.key]
        IN  (g.final_rating # Null /\ g.final_rating < 7500) => g.needs_remedial

\* C12: an accepted save that yields a final rating >= 75 clears needs_remedial
\* when the stored row had no recomputed final grade and keeps the flag when it
\* had one; a save that yields no final rating keeps the flag.
C12_FlagClearedUnlessRecomputed ==
    [][(last'.op \in SaveOps /\ last'.ok) =>
          LET old == StoredBefore(last'.key)
              new == grades'[last'.key]
          IN  /\ (new.final_rating # Null /\ new.final_rating >= 7500
                    /\ old.recomputed_final_grade = Null)
                 => ~new.needs_remedial
              /\ (new.final_rating # Null /\ new.final_rating >= 7500
                    /\ old.recomputed_final_grade # Null)
                 => (new.needs_remedial = old.needs_remedial)
              /\ (new.final_rating = Null)
                 => (new.needs_remedial = old.needs_remedial)]_vars

\* C12 witness: a quarter update has raised the final rating to 75 or more on
\* a row that has a recomputed final grade, and the flag is still set
C12_Witness ==
    /\ last.op = "grade_update"
    /\ last.ok
    /\ grades[last.key].final_rating # Null
    /\ grades[last.key].final_rating >= 7500
    /\ grades[last.key].recomputed_final_grade # Null
    /\ grades[last.key].needs_remedial

\* C13: a remedial request that carries a mark while the start date or the end
\* date is missing is rejected, whatever the needs_remedial flag, and leaves
\* the subject grades and the records as they were.
C13_MarkWithoutDatesRejected ==
    [][(/\ last'.op = "grade_remedial"
        /\ last'.arg[3] # Null
        /\ (last'.arg[1] = Null \/ last'.arg[2] = Null)) =>
            (/\ ~last'.ok
             /\ grades' = grades
             /\ records' = records)]_vars

----------------------------------------------------------------------------
(* Claims on the classifier's inputs *)

\* the subject grades of r that have no final rating
UnratedKeys(r) == {k \in DOMAIN grades : k[1] = r /\ grades[k].final_rating = Null}

\* C14: at grade level 4 or above the failing count includes the subject
\* grades without a final rating, so a record with a rated subject and an
\* unrated one is never classified PROMOTED, and one with more than two
\* unrated or failing subjects is never classified PASSED.
C14_UnratedCountsAsFailing ==
    \A r \in DOMAIN records :
        (records[r].grade_level >= 4 /\ RatedKeys(r) # {}) =>
            LET F == FailingCount(r) + Cardinality(UnratedKeys(r))
                res == determine_remarks(DB, r)
            IN  /\ res = "PROMOTED" => F = 0
                /\ res = "PASSED" => F \in {1, 2}

FailingCountEffective(r) ==
    Cardinality({k \in RatedKeys(r) : Effective(grades[k]) < 7500})

CriticalEffective(r) == \E k \in RatedKeys(r) : Effective(grades[k]) < 6000

\* C15: the general average, the failing count and the critical flag are all
\* taken on the effective final rating: at grade level 4 or above the
\* classifier's result is the decision table evaluated on effective ratings,
\* so a subject whose effective rating is >= 75 is not counted as failing.
C15_ClassifierUsesEffectiveRating ==
    \A r \in DOMAIN records :
        (records[r].grade_level >= 4 /\ RatedKeys(r) # {}) =>
            LET avg == calculate_general_average(DB, r)
                F == FailingCountEffective(r)
                res == determine_remarks(DB, r)
                promoted == avg >= 7500 /\ F = 0
                passed == ~promoted /\ avg >= 7500 /\ F \in {1, 2}
                             /\ ~CriticalEffective(r)
            IN  /\ IsRounded(avg, SumEffective(RatedKeys(r)),
                             Cardinality(RatedKeys(r)))
                /\ promoted => res = "PROMOTED"
                /\ passed => res = "PASSED"
                /\ (~promoted /\ ~passed) => res = "FAILED"

----------------------------------------------------------------------------
(* SpecScenario: a record is created for a pending student at a primary or a
   junior-high grade level, then its three seeded subjects are rated with the
   ratings of the design's scenarios C and D, cleared or removed *)

MaxScenarioRequests == 4

ScenarioAreas == [ENG |-> [applicable_grades |-> "ALL", is_core |-> TRUE],
                  MATH |-> [applicable_grades |-> "ALL", is_core |-> TRUE],
                  SCI |-> [applicable_grades |-> "ALL", is_core |-> TRUE],
                  ARAB |-> [applicable_grades |-> "ALL", is_core |-> FALSE]]

ScenarioGradeLevels == {2, 9}

\* one quarter score each: the subject's final rating is that score
ScenarioQuarterInputs == {<<Null, Null, Null, Null>>, <<9000, Null, Null, Null>>,
                          <<5000, Null, Null, Null>>, <<8800, Null, Null, Null>>,
                          <<9200, Null, Null, Null>>}

ScenarioKeys == {1} \X DOMAIN ScenarioAreas

InitScenario ==
    /\ academic_years = NoYears
    /\ promoting = NoPromotions
    /\ student_status = [s \in Students |-> "PENDING"]
    /\ learning_areas = ScenarioAreas
    /\ records = <<>>
    /\ grades = NoGrades
    /\ manual = {}
    /\ last = NoRequest
    /\ requests = 0

NextScenario ==
    /\ UNCHANGED <<academic_years, promoting>>
    /\ requests < MaxScenarioRequests
    /\ requests' = requests + 1
    /\ \/ \E gl \in ScenarioGradeLevels :
            AcademicRecordObjectsCreate("s1", gl, <<2024, 2025>>,
                                        <<"School1", Null, Null>>)
       \/ \E k \in ScenarioKeys, qs \in ScenarioQuarterInputs :
            SubjectGradeUpdateView(k, qs)
       \/ \E k \in ScenarioKeys : SubjectGradeDeleteView(k)

SpecScenario == InitScenario /\ [][NextScenario]_vars

----------------------------------------------------------------------------
(* Claims on the scenarios *)

\* the final ratings of the subject grades of r, as a bag
RatingsOf(r) ==
    LET K == {k \in DOMAIN grades : k[1] = r}
        V == {grades[k].final_rating : k \in K}
    IN  [v \in V |-> Cardinality({k \in K : grades[k].final_rating = v})]

ScenarioD == (9000 :> 1) @@ (5000 :> 1) @@ (8800 :> 1)

\* C16 as stated: a grade-9 record whose subjects are rated [90, 50, 88] is
\* classified PASSED or PROMOTED.
C16_ScenarioDNotFailed ==
    \A r \in DOMAIN records :
        (records[r].grade_level = 9 /\ RatingsOf(r) = ScenarioD) =>
            determine_remarks(DB, r) \in {"PASSED", "PROMOTED"}

\* C16 amended: a grade-9 record whose subjects are rated [90, 50, 88] has
\* general average 76.00 and one failing subject, and that subject, rated
\* below 60, is a critical failure: the classifier returns FAILED.
C16_ScenarioDFailed ==
    \A r \in DOMAIN records :
        (records[r].grade_level = 9 /\ RatingsOf(r) = ScenarioD) =>
            /\ calculate_general_average(DB, r) = 7600
            /\ FailingCount(r) = 1
            /\ Critical(r)
            /\ determine_remarks(DB, r) = "FAILED"

\* C16 witness: the grade-9 record rated [90, 50, 88] is stored as FAILED with
\* general average 76.00
C16_Witness ==
    \E r \in DOMAIN records :
        /\ records[r].grade_level = 9
        /\ RatingsOf(r) = ScenarioD
        /\ records[r].general_average = 7600
        /\ records[r].remarks = "FAILED"

\* C17: a record none of whose subject grades has a final rating (a record
\* without subject grades included) has the classifier return "" and a null
\* general average, computed and stored, at every grade level; a freshly
\* created record has its core subjects seeded unrated and is in that state.
C17_UnratedRecordUndetermined ==
    /\ \A r \in DOMAIN records :
          RatedKeys(r) = {} =>
              /\ determine_remarks(DB, r) = ""
              /\ calculate_general_average(DB, r) = Null
              /\ records[r].general_average = Null
    /\ last.op = "create_record" =>
          /\ RatedKeys(last.ret) = {}
          /\ {k[2] : k \in UnratedKeys(last.ret)} =
                get_subjects_for_grade(learning_areas, records[last.ret].grade_level)
          /\ records[last.ret].remarks = ""

\* C17 witness: a record that had a general average has lost its last rating,
\* or its last subject grade, and its general average is null again
C17_Witness ==
    /\ last.op \in {"grade_update", "grade_delete"}
    /\ last.before.general_average # Null
    /\ RatedKeys(last.rec) = {}
    /\ records[last.rec].general_average = Null
    /\ determine_remarks(DB, last.rec) = ""

----------------------------------------------------------------------------
(* SpecYear: records are created under school-year labels of several shapes,
   as AcademicRecordForm's school_year field accepts them (any text of at most
   9 characters), and promoted.  A label is the sequence of its "-"-separated
   parts; a part stands for a decimal numeral without sign, space or leading
   zero (the integer) or for any other text (NaN). *)

\* "2024-2025", "24-25", "2024-25", "2024", "2024-2025-2026" is too long for
\* the field, so "1-2-3", "SY-2025", "2024-"
YearLabels == {<<2024, 2025>>, <<24, 25>>, <<2024, 25>>, <<2024>>, <<1, 2, 3>>,
               <<NaN, 2025>>, <<2024, NaN>>}

YearGradeLevels == {8, 9}

InitYear ==
    /\ academic_years = NoYears
    /\ promoting = NoPromotions
    /\ student_status = [s \in Students |-> "PENDING"]
    /\ learning_areas = OneArea
    /\ records = <<>>
    /\ grades = NoGrades
    /\ manual = {}
    /\ last = NoRequest
    /\ requests = 0

NextYear ==
    /\ UNCHANGED <<academic_years, promoting>>
    /\ UNCHANGED requests
    /\ \/ \E gl \in YearGradeLevels, sy \in YearLabels :
            AcademicRecordCreateView("s1", gl, sy, <<"School1", Null, Null>>)
       \/ \E r \in 1..MaxRecords : AcademicRecordPromoteView(r)

SpecYear == InitYear /\ [][NextYear]_vars

----------------------------------------------------------------------------
(* Claim on the next school year *)

FourDigitYear(part) == part >= 1000 /\ part <= 9999

TwoDashedYears(label) ==
    Len(label) = 2 /\ FourDigitYear(label[1]) /\ FourDigitYear(label[2])

\* C19: the record promote returns carries the source's label with both years
\* incremented when the label is two 4-digit years around one dash, and the
\* source's label unchanged for every other label (wrong number of parts,
\* non-numeric parts, parts that are not 4-digit years); promote never fails.
C19_NextSchoolYear ==
    (last.op = "promote" /\ last.before.grade_level < 10) =>
        /\ last.ret \in DOMAIN records
        /\ LET label == last.before.school_year
               next == records[last.ret].school_year
           IN  IF TwoDashedYears(label)
               THEN next = <<label[1] + 1, label[2] + 1>>
               ELSE next = label

----------------------------------------------------------------------------
(* SpecStatus: the student's status under record creation and record saves.
   The registrar may set any status through StudentUpdateView, so a student
   with records can be PENDING again. *)

MaxStatusRequests == 4

\* StudentUpdateView with StudentForm (fields "__all__"): status is a field of
\* the form; Student has no post_save receiver
StudentUpdateView(s, status) ==
    /\ student_status' = [student_status EXCEPT ![s] = status]
    /\ Served("student_update", Null, Null, <<status>>, TRUE, Null, FALSE, NoRecord)
    /\ UNCHANGED <<learning_areas, records, grades, manual>>

StatusQuarterInputs == {<<Null, Null, Null, Null>>, <<9000, 9200, 8800, 9000>>}

InitStatus ==
    /\ academic_years = NoYears
    /\ promoting = NoPromotions
    /\ student_status \in [Students -> StudentStatuses]
    /\ learning_areas = OneArea
    /\ records = <<>>
    /\ grades = NoGrades
    /\ manual = {}
    /\ last = NoRequest
    /\ requests = 0

NextStatus ==
    /\ UNCHANGED <<academic_years, promoting>>
    /\ requests < MaxStatusRequests
    /\ requests' = requests + 1
    /\ \/ \E s \in Students, gl \in GradeLevels :
            AcademicRecordCreateView(s, gl, <<2024, 2025>>, <<"School1", Null, Null>>)
       \/ \E s \in Students, st \in StudentStatuses : StudentUpdateView(s, st)
       \/ \E r \in 1..MaxRecords, qs \in StatusQuarterInputs :
            SubjectGradeUpdateView(<<r, "ENG">>, qs)
       \/ \E r \in 1..MaxRecords : AcademicRecordPromoteView(r)
       \/ \E r \in 1..MaxRecords : AcademicRecordRetainView(r)

SpecStatus == InitStatus /\ [][NextStatus]_vars

----------------------------------------------------------------------------
(* Claim on enrollment *)

RecordOps == {"create_record", "grade_update", "grade_create", "grade_delete",
              "grade_remedial", "grade_save", "promote", "retain"}

\* C20: a request that creates an AcademicRecord moves its student from
\* PENDING to ENROLLED and leaves any other status as it was; a request that
\* only saves existing records never moves a student to ENROLLED.
C20_EnrolledOnFirstRecordOnly ==
    [][(last'.op \in RecordOps) =>
          \A s \in Students :
              IF last'.created /\ records'[last'.ret].student = s
              THEN student_status'[s] =
                      (IF student_status[s] = "PENDING" THEN "ENROLLED"
                       ELSE student_status[s])
              ELSE (student_status'[s] = "ENROLLED")
                      => (student_status[s] = "ENROLLED")]_vars

\* C20 witness: a record of a PENDING student has been saved by retain and the
\* student is still PENDING
C20_Witness ==
    /\ last.op = "retain"
    /\ student_status[records[last.rec].student] = "PENDING"

----------------------------------------------------------------------------
(* Claims on graduation and on seeding *)

\* C21: GRADUATED is terminal: no record creation, subject-grade save or
\* deletion, promote or retain moves a GRADUATED student to another status.
C21_GraduatedIsTerminal ==
    [][(last'.op \in RecordOps) =>
          \A s \in Students :
              (student_status[s] = "GRADUATED") => (student_status'[s] = "GRADUATED")]_vars

\* C21 witness: the grade-10 record of a GRADUATED student has been retained
\* and the student is still GRADUATED
C21_Witness ==
    /\ last.op = "retain"
    /\ records[last.rec].grade_level = 10
    /\ last.before.remarks = "PROMOTED"
    /\ student_status[records[last.rec].student] = "GRADUATED"

\* the learning areas applicable to a grade level, core or not
ApplicableAreas(gl) ==
    {c \in DOMAIN learning_areas :
        learning_areas[c].applicable_grades \in {str(gl), "ALL"}}

\* C22: a request that creates an AcademicRecord (enrollment or promote) seeds
\* exactly one SubjectGrade with null quarters for every learning area
\* applicable to the record's grade level, core and non-core alike, and none
\* for another learning area; a request that creates no record adds no
\* SubjectGrade to an existing record unless it is a subject-grade creation.
C22_SeedsEveryApplicableArea ==
    [][/\ (last'.op \in RecordOps /\ last'.created) =>
            LET r == last'.ret
            IN  /\ {k[2] : k \in {j \in DOMAIN grades' : j[1] = r}} =
                      ApplicableAreas(records'[r].grade_level)
                /\ \A k \in DOMAIN grades' : k[1] = r => grades'[k] = NewSubjectGrade
       /\ (last'.op \in RecordOps \ {"grade_create"} /\ ~last'.created) =>
            DOMAIN grades' \subseteq DOMAIN grades]_vars

----------------------------------------------------------------------------
(* SpecRange: scores inside and outside [0, 100] written to one subject of an
   enrolled grade-9 record, through the two forms and through a direct
   SubjectGrade.save *)

\* 150.00 and -5.00 fit max_digits=5, decimal_places=2
RangeQuarterInputs == {<<Null, Null, Null, Null>>, <<8000, 9000, Null, Null>>,
                       <<15000, Null, Null, Null>>, <<-500, 8000, Null, Null>>,
                       <<10000, 10001, Null, Null>>}
RangeRemedialInputs == {<<Null, Null, Null>>, <<1, 30, 8000>>,
                        <<1, 30, 15000>>, <<1, 30, -500>>}

InitRange ==
    /\ academic_years = NoYears
    /\ promoting = NoPromotions
    /\ learning_areas = OneArea
    /\ LET db == Enrolled(OneArea, 9)
       IN  /\ records = db.records
           /\ grades = db.grades
           /\ student_status = db.student_status
    /\ manual = {}
    /\ last = NoRequest
    /\ requests = 0

NextRange ==
    /\ UNCHANGED <<academic_years, promoting>>
    /\ UNCHANGED requests
    /\ \/ \E qs \in RangeQuarterInputs : SubjectGradeUpdateView(<<1, "ENG">>, qs)
       \/ \E rm \in RangeRemedialInputs :
            SubjectGradeRemedialUpdateView(<<1, "ENG">>, rm)
       \/ \E qs \in RangeQuarterInputs : SubjectGradeSave(<<1, "ENG">>, qs, Null)

SpecRange == InitRange /\ [][NextRange]_vars

----------------------------------------------------------------------------
(* Claims on the input range and on rounding *)

InScoreRange(v) == v = Null \/ (0 <= v /\ v <= 10000)

\* C23: on every write path a score outside [0, 100] is rejected before the
\* aggregator sees it: no stored final rating is computed from an out-of-range
\* quarter, no recomputed final grade from an out-of-range remedial mark, and
\* so no general average from either.
C23_NoAggregateFromOutOfRange ==
    \A k \in DOMAIN grades :
        LET g == grades[k]
        IN  /\ g.final_rating # Null =>
                 \A i \in 1..4 : InScoreRange(Quarters(g)[i])
            /\ g.recomputed_final_grade # Null => InScoreRange(g.remedial_mark)

\* (2 * num + den) \div (2 * den): num/den rounded to the nearest hundredth,
\* a tie upward (num, den >= 0)
RoundHalfUp(num, den) == (2 * num + den) \div (2 * den)

\* C24: rounding to 2 decimal places is round-half-up: after a save the final
\* rating is the mean of the quarters present with a tie in the third decimal
\* rounded upward.
C24_RoundsHalfUp ==
    (last.op \in {"grade_save", "grade_update"} /\ last.ok) =>
        LET g == grades[last.key]
            qs == Quarters(g)
        IN  Present(qs) # {} =>
                g.final_rating = RoundHalfUp(SumAt(qs, Present(qs)),
                                             Cardinality(Present(qs)))

----------------------------------------------------------------------------
(* SpecCalendar: the AcademicYear table under the create and update views, a
   direct save of a new year, and get_current_year.  A row is
   [year_label, start_date, is_current]; end_date is stored and never read. *)

MaxYears == 3

CalendarLabels == {"2024-2025", "2025-2026", "2026-2027"}

\* start dates, as day numbers
StartDates == {1, 2}

\* the rows with is_current = True
current_years(years) == {i \in DOMAIN years : years[i].is_current}

\* faulty variant: the other current years are left as they are
AcademicYear_save_keep(years, pk, row) ==
    IF pk = Null THEN Append(years, row) ELSE [years EXCEPT ![pk] = row]

\* filter(is_current=True).update(is_current=False)
clear_current(years) ==
    [i \in DOMAIN years |-> [years[i] EXCEPT !.is_current = FALSE]]

\* AcademicYear.save of a new row (pk = Null) or of row pk
AcademicYear_save(years, pk, row) ==
    LET cleared == IF row.is_current THEN clear_current(years) ELSE years
    IN  IF pk = Null THEN Append(cleared, row) ELSE [cleared EXCEPT ![pk] = row]

\* AcademicYear.get_current_year: the pks the two queries can return, Null for
\* None.  Meta.ordering is ["-start_date"]; among rows of equal start date the
\* database picks the first.
get_current_year(years) ==
    LET first(S) == {i \in S : \A j \in S : years[j].start_date <= years[i].start_date}
        current == current_years(years)
    IN  IF current # {} THEN first(current)
        ELSE IF DOMAIN years # {} THEN first(DOMAIN years)
        ELSE {Null}

\* unique=True on year_label, as ModelForm.validate_unique and the database
\* check it (the row itself excluded)
year_label_taken(years, pk, label) ==
    \E i \in DOMAIN years : i # pk /\ years[i].year_label = label

\* the year that was current when the request arrived (Null: none)
CurrentBefore ==
    IF current_years(academic_years) = {} THEN Null
    ELSE CHOOSE i \in current_years(academic_years) :
            \A j \in current_years(academic_years) : i <= j

YearRow(label, sd, cur) == [year_label |-> label, start_date |-> sd, is_current |-> cur]

\* AcademicYearCreateView: AcademicYearForm.is_valid, then form.save()
AcademicYearCreateView(label, sd, cur) ==
    /\ Len(academic_years) < MaxYears
    /\ IF year_label_taken(academic_years, Null, label)
       THEN /\ UNCHANGED academic_years
            /\ Served("year_create", Null, CurrentBefore, <<label, sd, cur>>, FALSE,
                      Null, FALSE, NoRecord)
       ELSE /\ academic_years' = AcademicYear_save(academic_years, Null, YearRow(label, sd, cur))
            /\ Served("year_create", Null, CurrentBefore, <<label, sd, cur>>, TRUE,
                      Len(academic_years) + 1, TRUE, NoRecord)
    /\ UNCHANGED <<student_status, learning_areas, records, grades, manual, promoting>>

\* AcademicYearUpdateView
AcademicYearUpdateView(pk, label, sd, cur) ==
    /\ pk \in DOMAIN academic_years
    /\ IF year_label_taken(academic_years, pk, label)
       THEN /\ UNCHANGED academic_years
            /\ Served("year_update", pk, CurrentBefore, <<label, sd, cur>>, FALSE,
                      Null, FALSE, NoRecord)
       ELSE /\ academic_years' = AcademicYear_save(academic_years, pk, YearRow(label, sd, cur))
            /\ Served("year_update", pk, CurrentBefore, <<label, sd, cur>>, TRUE,
                      pk, FALSE, NoRecord)
    /\ UNCHANGED <<student_status, learning_areas, records, grades, manual, promoting>>

\* AcademicYear(...).save() with no form in front.  On a taken label the INSERT
\* raises IntegrityError after the UPDATE ran: the UPDATE stays (autocommit) or
\* is rolled back (inside transaction.atomic).
AcademicYearSave(label, sd, cur) ==
    /\ Len(academic_years) < MaxYears
    /\ IF year_label_taken(academic_years, Null, label)
       THEN /\ academic_years' \in
                  {academic_years,
                   IF cur THEN clear_current(academic_years) ELSE academic_years}
            /\ Served("year_save", Null, CurrentBefore, <<label, sd, cur>>, FALSE,
                      Null, FALSE, NoRecord)
       ELSE /\ academic_years' = AcademicYear_save(academic_years, Null, YearRow(label, sd, cur))
            /\ Served("year_save", Null, CurrentBefore, <<label, sd, cur>>, TRUE,
                      Len(academic_years) + 1, TRUE, NoRecord)
    /\ UNCHANGED <<student_status, learning_areas, records, grades, manual, promoting>>

\* a caller of AcademicYear.get_current_year (DashboardView)
CurrentYearCall ==
    /\ \E y \in get_current_year(academic_years) :
            Served("current_year", Null, CurrentBefore, <<>>, TRUE, y, FALSE, NoRecord)
    /\ UNCHANGED <<student_status, learning_areas, records, grades, manual,
                   academic_years, promoting>>

InitCalendar ==
    /\ academic_years = NoYears
    /\ promoting = NoPromotions
    /\ student_status = [s \in Students |-> "PENDING"]
    /\ learning_areas = OneArea
    /\ records = <<>>
    /\ grades = NoGrades
    /\ manual = {}
    /\ last = NoRequest
    /\ requests = 0

NextCalendar ==
    /\ UNCHANGED requests
    /\ \/ \E label \in CalendarLabels, sd \in StartDates, cur \in BOOLEAN :
            AcademicYearCreateView(label, sd, cur)
       \/ \E pk \in 1..MaxYears, label \in CalendarLabels, sd \in StartDates,
             cur \in BOOLEAN :
            AcademicYearUpdateView(pk, label, sd, cur)
       \/ \E label \in CalendarLabels, sd \in StartDates, cur \in BOOLEAN :
            AcademicYearSave(label, sd, cur)
       \/ CurrentYearCall

SpecCalendar == InitCalendar /\ [][NextCalendar]_vars

----------------------------------------------------------------------------
(* Claim on the current academic year *)

YearSaves == {"year_create", "year_update", "year_save"}

\* C25: after every AcademicYear.save at most one year is current; a save
\* that stores a year with is_current = true leaves that year the only
\* current one; get_current_year returns the current year if there is one,
\* else a year of the latest start date, else none.
C25_OneCurrentYear ==
    [][/\ Cardinality(current_years(academic_years')) <= 1
       /\ (last'.op \in YearSaves /\ last'.ok /\ last'.arg[3]) =>
              current_years(academic_years') = {last'.ret}
       /\ (last'.op = "current_year") =>
              IF current_years(academic_years) # {}
              THEN last'.ret \in current_years(academic_years)
              ELSE IF academic_years = <<>>
              THEN last'.ret = Null
              ELSE /\ last'.ret \in DOMAIN academic_years
                   /\ \A j \in DOMAIN academic_years :
                        academic_years[j].start_date <=
                            academic_years[last'.ret].start_date]_vars

\* a second year was saved as current while another one was, and is now the
\* only current one
C25_Witness ==
    /\ last.op \in YearSaves
    /\ last.ok
    /\ last.arg[3]
    /\ last.key # Null
    /\ last.key # last.ret
    /\ ~academic_years[last.key].is_current
    /\ current_years(academic_years) = {last.ret}

----------------------------------------------------------------------------
(* Claims on the remedial outcome of a subject *)

\* C26: after every accepted SubjectGrade save that leaves a final rating,
\* the subject's remarks are "Passed" when the effective final rating stored
\* by that save (recomputed final grade if present, else final rating) is at
\* least 75, and "Failed" otherwise.
C26_RemarksFollowStoredEffective ==
    (last.op \in SaveOps /\ last.ok) =>
        LET g == grades[last.key]
        IN  g.final_rating # Null =>
                g.remarks = (IF Effective(g) >= PassingMark THEN "Passed" ELSE "Failed")

\* C27: a subject grade has a recomputed final grade only while it has a
\* remedial mark and a final rating; without either the effective rating of
\* get_final_rating is the original final rating.
C27_RecomputedOnlyWithMark ==
    \A k \in DOMAIN grades :
        LET g == grades[k]
        IN  /\ g.recomputed_final_grade # Null =>
                 (g.remedial_mark # Null /\ g.final_rating # Null)
            /\ (g.remedial_mark = Null \/ g.final_rating = Null) =>
                 get_final_rating(g) = g.final_rating

----------------------------------------------------------------------------
(* SpecPending: the record life cycle of Spec for a student who starts
   PENDING, so that every later status was set by the receiver *)

InitPending ==
    /\ academic_years = NoYears
    /\ promoting = NoPromotions
    /\ student_status = [s \in Students |-> "PENDING"]
    /\ learning_areas = Areas
    /\ records = <<>>
    /\ grades = NoGrades
    /\ manual = {}
    /\ last = NoRequest
    /\ requests = 0

SpecPending == InitPending /\ [][Next]_vars

----------------------------------------------------------------------------
(* Claims on the states promote and retain leave behind *)

\* C28: a student whose status is GRADUATED has a grade-10 record whose
\* remarks are PROMOTED.
C28_GraduatedHasPromotedGrade10 ==
    \A s \in Students :
        student_status[s] = "GRADUATED" =>
            \E r \in DOMAIN records :
                /\ records[r].student = s
                /\ records[r].grade_level = LastGrade
                /\ records[r].remarks = "PROMOTED"

\* r2 is the record promote(r) creates or finds
SuccessorOf(r2, r) ==
    /\ records[r2].student = records[r].student
    /\ records[r2].grade_level = records[r].grade_level + 1
    /\ records[r2].school_year = next_school_year(records[r].school_year)

\* C29: a record that has a successor created by promoting it (same student,
\* grade level + 1, next school year) has remarks PROMOTED.  Records of the
\* next school year are created by promote only: the create view offers the
\* first school year alone.
C29_SuccessorOnlyOfPromoted ==
    \A r \in DOMAIN records, r2 \in DOMAIN records :
        (r \in manual /\ SuccessorOf(r2, r)) => records[r].remarks = "PROMOTED"

----------------------------------------------------------------------------
(* SpecConcurrent: promote requests served by concurrent workers.  A request
   is a row of promoting: [pc, rec, ret].  Its steps are the statements of
   AcademicRecordPromoteView.post and AcademicRecord.promote that read or
   write the tables; the retain view interleaves as a whole request. *)

MaxInFlight == 2

ConcurrentGradeLevels == {9, 10}

\* the stored records promote(self) looks for
existing_next(recs, self) ==
    {i \in DOMAIN recs :
        /\ recs[i].student = self.student
        /\ recs[i].grade_level = self.grade_level + 1
        /\ recs[i].school_year = next_school_year(self.school_year)}

\* post(): record = get_object_or_404(AcademicRecord, pk=pk)
PromoteBegin(r) ==
    /\ Len(promoting) < MaxInFlight
    /\ r \in DOMAIN records
    /\ promoting' = Append(promoting, [pc |-> "mark", rec |-> r, ret |-> Null])
    /\ UNCHANGED <<student_status, learning_areas, records, grades, manual, last,
                   academic_years>>

\* post(): record.remarks = "PROMOTED"; record.save(update_fields=["remarks"])
PromoteMark(i) ==
    /\ i \in DOMAIN promoting
    /\ promoting[i].pc = "mark"
    /\ LET r == promoting[i].rec
       IN  /\ Store(update_student_status_on_academic_change(
                        [DB EXCEPT !.records[r].remarks = "PROMOTED"],
                        learning_areas, r, FALSE))
           /\ manual' = manual \cup {r}
    /\ promoting' = [promoting EXCEPT ![i].pc = "check"]
    /\ UNCHANGED <<learning_areas, last, academic_years>>

\* promote(): the grade-10 return, else the filter(...).first() lookup
PromoteCheck(i) ==
    /\ i \in DOMAIN promoting
    /\ promoting[i].pc = "check"
    /\ LET self == records[promoting[i].rec]
           existing == existing_next(records, self)
       IN  promoting' =
              IF self.grade_level >= LastGrade
              THEN [promoting EXCEPT ![i].pc = "done"]
              ELSE IF existing # {}
              THEN [promoting EXCEPT ![i].pc = "done",
                        ![i].ret = CHOOSE e \in existing : \A j \in existing : e <= j]
              ELSE [promoting EXCEPT ![i].pc = "create"]
    /\ UNCHANGED <<student_status, learning_areas, records, grades, manual, last,
                   academic_years>>

\* promote(): AcademicRecord.objects.create(...).  unique_together on
\* (student, grade_level, school_year): the INSERT of a second such row
\* raises IntegrityError, which nothing catches.
PromoteCreate(i) ==
    /\ i \in DOMAIN promoting
    /\ promoting[i].pc = "create"
    /\ LET self == records[promoting[i].rec]
       IN  IF existing_next(records, self) # {}
           THEN /\ promoting' = [promoting EXCEPT ![i].pc = "error"]
                /\ UNCHANGED <<student_status, records, grades>>
           ELSE LET c == AcademicRecord_create(DB, learning_areas,
                            [student |-> self.student, school |-> self.school,
                             grade_level |-> self.grade_level + 1, section |-> Null,
                             school_year |-> next_school_year(self.school_year),
                             adviser_teacher |-> Null])
                IN  /\ Store(c.db)
                    /\ promoting' = [promoting EXCEPT ![i].pc = "done", ![i].ret = c.ret]
    /\ UNCHANGED <<learning_areas, manual, last, academic_years>>

\* AcademicRecordRetainView.post of another worker
ConcurrentRetain(r) ==
    /\ AcademicRecordRetainView(r)
    /\ UNCHANGED <<academic_years, promoting>>

InitConcurrent ==
    /\ academic_years = NoYears
    /\ promoting = NoPromotions
    /\ learning_areas = OneArea
    /\ \E gl \in ConcurrentGradeLevels :
         LET db == Enrolled(OneArea, gl)
         IN  /\ records = db.records
             /\ grades = db.grades
             /\ student_status = db.student_status
    /\ manual = {}
    /\ last = NoRequest
    /\ requests = 0

NextConcurrent ==
    /\ UNCHANGED requests
    /\ \/ \E r \in 1..MaxRecords : PromoteBegin(r)
       \/ \E i \in 1..MaxInFlight : PromoteMark(i)
       \/ \E i \in 1..MaxInFlight : PromoteCheck(i)
       \/ \E i \in 1..MaxInFlight : PromoteCreate(i)
       \/ \E r \in 1..MaxRecords : ConcurrentRetain(r)

SpecConcurrent == InitConcurrent /\ [][NextConcurrent]_vars

----------------------------------------------------------------------------
(* Claim on concurrent promotion *)

\* C30: two promote requests for the same record, interleaved in any way,
\* both complete without an error, and once both are complete they have
\* returned the same next-grade record and exactly one record of (student,
\* G + 1, next school year) exists.
C30_ConcurrentPromoteIdempotent ==
    \A i \in DOMAIN promoting, j \in DOMAIN promoting :
        (i # j /\ promoting[i].rec = promoting[j].rec) =>
            /\ promoting[i].pc # "error"
            /\ (/\ promoting[i].pc = "done"
                /\ promoting[j].pc = "done"
                /\ records[promoting[i].rec].grade_level < LastGrade) =>
                   /\ promoting[i].ret = promoting[j].ret
                   /\ Cardinality(existing_next(records, records[promoting[i].rec])) = 1

====
